---- MODULE Spec2Model ----
(***************************************************************************)
(* Model of sui.complete.py: the endpoint fallback of make_rpc_call, the   *)
(* classifier parse_transaction and the batch loop of "Run Analysis".      *)
(*                                                                         *)
(* Representation of the Python values:                                    *)
(*  - a JSON scalar read with int()/float() is a record [t, n]: t = "num"  *)
(*    (n is the number), "absent" (the key is missing), "str" (a string    *)
(*    that is no number, int()/float() raise ValueError) or "null"         *)
(*    (int()/float() raise TypeError);                                     *)
(*  - a coin type is the sequence of its "::"-separated segments, so that  *)
(*    split("::")[-1] is its last element; <<>> is a missing coinType key; *)
(*  - a float in display units is the exact decimal [units, nano] with     *)
(*    value units + nano / 10^9 and 0 <= nano < 10^9;                      *)
(*  - an exception leaving parse_transaction is the field exc of its       *)
(*    outcome.                                                             *)
(* The records of the model carry no timestampMs, so ts_str is "Unknown".  *)
(***************************************************************************)
EXTENDS Integers, Sequences, FiniteSets, TLC

VARIABLES
    tx_data,        \* classifier: the raw record handed to parse_transaction
    data,           \* classifier: what parse_transaction returned (or raised)
    cl_pc,          \* classifier: "input" before the call, "returned" / "raised" after
    responses,      \* fetcher: what each node of RPC_NODES answers to this call
    rpc,            \* fetcher: outcome of make_rpc_call (result, nodes contacted)
    rpc_pc,         \* fetcher: "call" before, "returned" after
    all_hashes,     \* orchestrator: the identifier column
    i,              \* orchestrator: start of the current batch (0-based, as range())
    pos,            \* orchestrator: 1-based position in all_hashes of the next tx_hash
    batch_lookup,   \* orchestrator: digest -> item of the current batch
    out_rows,       \* orchestrator: the out_* lists, one record per appended row
    trail,          \* orchestrator: per processed tx_hash, what was fetched (history)
    pc              \* orchestrator: "batch", "process", "done", "raised", "idle"

vars == <<tx_data, data, cl_pc, responses, rpc, rpc_pc,
          all_hashes, i, pos, batch_lookup, out_rows, trail, pc>>

-----------------------------------------------------------------------------
(* Bounds of the model *)

MaxEvents == 2
MaxChanges == 2
MaxHashes == 12

-----------------------------------------------------------------------------
(* JSON scalars and Python's int()/float() *)

Num(n) == [t |-> "num", n |-> n]
Absent == [t |-> "absent", n |-> 0]
NotANumber == [t |-> "str", n |-> 0]

\* d.get(key, 0) followed by int()/float(): the conversion raises on a value
\* that is present and no number.
Converts(v) == v.t \in {"num", "absent"}
NumberOf(v) == IF v.t = "num" THEN v.n ELSE 0

\* d.get(key, default) for a string-valued key; NoKey is the missing key.
NoKey == "<missing>"
GetStr(v, default) == IF v = NoKey THEN default ELSE v

-----------------------------------------------------------------------------
(* Strings of the model, with str.lower() and the substring test `in`      *)
(* tabulated on them.                                                      *)

StakeEventType == "0x3::validator::StakingRequestEvent"
UnstakeEventType == "0x3::validator::UnstakingRequestEvent"
OtherEventType == "0x2::display::VersionUpdated"

Lower(s) ==
    CASE s = "0xA1" -> "0xa1"
      [] s = "0xA36A" -> "0xa36a"
      [] s = "Nansen" -> "nansen"
      [] s = "InfStones" -> "infstones"
      [] s = "Unknown Validator" -> "unknown validator"
      [] s = "Nansen (Detected)" -> "nansen (detected)"
      [] OTHER -> s

SubstringPairs ==
    { <<"StakingRequest", StakeEventType>>,
      <<"UnstakingRequest", UnstakeEventType>>,
      <<"0xa36a", "0xa36a">>,
      <<"nansen", "nansen (detected)">> }

\* needle in hay
Contains(needle, hay) == <<needle, hay>> \in SubstringPairs

-----------------------------------------------------------------------------
(* format_amount and the decimals it produces *)

MIST_PER_SUI == 1000000000

Dec(mist) == [units |-> mist \div MIST_PER_SUI, nano |-> mist % MIST_PER_SUI]
MistOf(d) == d.units * MIST_PER_SUI + d.nano
Zero == [units |-> 0, nano |-> 0]
IsNegative(d) == d.units < 0
IsZero(d) == d.units = 0 /\ d.nano = 0
IsPositive(d) == ~IsNegative(d) /\ ~IsZero(d)
\* unary minus of a float
Minus(d) == Dec(0 - MistOf(d))

\* float(mist_amount) / 1_000_000_000
format_amount(mist_amount) == Dec(mist_amount)

-----------------------------------------------------------------------------
(* parse_token_name *)

SUI_TYPE == <<"0x2", "sui", "SUI">>
NoCoin == <<>>
EmptyString == <<"">>

GetCoin(c, default) == IF c = NoCoin THEN default ELSE c

parse_token_name(coin_type) ==
    IF coin_type = EmptyString \/ coin_type = SUI_TYPE
    THEN "SUI"
    ELSE coin_type[Len(coin_type)]

-----------------------------------------------------------------------------
(* parse_transaction *)

\* The outcome of a call: exc is TRUE when an exception left the function, and
\* then the other fields mean nothing.
Outcome(type, amount, token, target, sender, recipient, gas_fee) ==
    [exc |-> FALSE, Type |-> type, Amount |-> amount, Token |-> token,
     TargetAmount |-> target, Timestamp |-> "Unknown", Sender |-> sender,
     Recipient |-> recipient, GasFees |-> gas_fee]

NoTarget == [set |-> FALSE, val |-> Zero]
Target(d) == [set |-> TRUE, val |-> d]

Raised == [Outcome("", Zero, "", NoTarget, "", "", Zero) EXCEPT !.exc = TRUE]

\* lines 79-83: the three int() conversions and comp + stor - rebate
GasConverts(gas_used) ==
    /\ Converts(gas_used.computationCost)
    /\ Converts(gas_used.storageCost)
    /\ Converts(gas_used.storageRebate)

gas_mist(gas_used) ==
    NumberOf(gas_used.computationCost) + NumberOf(gas_used.storageCost)
        - NumberOf(gas_used.storageRebate)

\* lines 103 and 125: the substring tests on the event type
IsStakeEvent(e_type) ==
    Contains("RequestAddStake", e_type) \/ Contains("StakingRequest", e_type)

IsUnstakeEvent(e_type) ==
    /\ ~IsStakeEvent(e_type)
    /\ \/ Contains("Withdraw", e_type)
       \/ Contains("Unstake", e_type)
       \/ Contains("UnstakingRequest", e_type)

EventType(event) == GetStr(event.type, "")

\* the loop without its break statements: the last matching event decides
LastStakingEventIndex(events) ==
    LET Hit(k) == IsStakeEvent(EventType(events[k])) \/ IsUnstakeEvent(EventType(events[k]))
    IN  IF \E k \in 1..Len(events) : Hit(k)
        THEN CHOOSE k \in 1..Len(events) :
               Hit(k) /\ \A j \in (k + 1)..Len(events) : ~Hit(j)
        ELSE 0

\* The event at which the loop of lines 98-136 breaks: the first one that takes
\* the if or the elif; 0 when the loop runs to its end.
StakingEventIndex(events) ==
    LET Hit(k) == IsStakeEvent(EventType(events[k])) \/ IsUnstakeEvent(EventType(events[k]))
    IN  IF \E k \in 1..Len(events) : Hit(k)
        THEN CHOOSE k \in 1..Len(events) : Hit(k) /\ \A j \in 1..(k - 1) : ~Hit(j)
        ELSE 0

\* the sign of line 109 dropped
sui_val_unsigned(amount_mist) == format_amount(amount_mist)

\* line 109: sui_val = -format_amount(amount_mist)
sui_val(amount_mist) == Minus(format_amount(amount_mist))

\* lines 111-115: the validator's display name
ValidatorName(parsed, validator_map) ==
    LET val_addr == Lower(GetStr(parsed.validator_address, ""))
        val_name == IF val_addr \in DOMAIN validator_map
                    THEN validator_map[val_addr]
                    ELSE "Unknown Validator"
    IN  IF Contains("0xa36a", val_addr) /\ val_name = "Unknown Validator"
        THEN "Nansen (Detected)"
        ELSE val_name

\* lines 104-122: the Stake branch
StakeBranch(parsed, validator_map, target_keyword, sender, gas_fee_sui) ==
    IF ~Converts(parsed.amount) THEN Raised
    ELSE LET val_name == ValidatorName(parsed, validator_map)
             amount == sui_val(NumberOf(parsed.amount))
         IN  Outcome("Stake", amount, "SUI",
                     IF Contains(Lower(target_keyword), Lower(val_name))
                     THEN Target(amount) ELSE NoTarget,
                     sender, val_name, gas_fee_sui)

\* lines 130-134: p + r, with the generic amount when both are zero
UnstakeMist(parsed) ==
    LET p == NumberOf(parsed.principal_amount)
        r == NumberOf(parsed.reward_amount)
    IN  IF p = 0 /\ r = 0 THEN NumberOf(parsed.amount) + r ELSE p + r

\* lines 126-136: the Unstake branch
UnstakeBranch(parsed, sender, gas_fee_sui) ==
    LET both_zero == NumberOf(parsed.principal_amount) = 0
                        /\ NumberOf(parsed.reward_amount) = 0
    IN  IF \/ ~Converts(parsed.principal_amount)
           \/ ~Converts(parsed.reward_amount)
           \/ both_zero /\ ~Converts(parsed.amount)
        THEN Raised
        ELSE Outcome("Unstake", format_amount(UnstakeMist(parsed)), "SUI",
                     NoTarget, sender, "N/A", gas_fee_sui)

Owner(change) == GetStr(change.owner, "")

\* lines 146-153: the sender's first change whose coinType is not the SUI type
NonSuiChangeIndex(balance_changes, sender) ==
    LET Hit(k) == /\ Owner(balance_changes[k]) = sender
                  /\ GetCoin(balance_changes[k].coinType, SUI_TYPE) # SUI_TYPE
    IN  IF \E k \in 1..Len(balance_changes) : Hit(k)
        THEN CHOOSE k \in 1..Len(balance_changes) : Hit(k) /\ \A j \in 1..(k - 1) : ~Hit(j)
        ELSE 0

\* lines 156-162: failing that, the sender's first change
AnyChangeIndex(balance_changes, sender) ==
    LET Hit(k) == Owner(balance_changes[k]) = sender
    IN  IF \E k \in 1..Len(balance_changes) : Hit(k)
        THEN CHOOSE k \in 1..Len(balance_changes) : Hit(k) /\ \A j \in 1..(k - 1) : ~Hit(j)
        ELSE 0

\* lines 143-162: primary_change, as an index into balance_changes (0 is None)
PrimaryChangeIndex(balance_changes, sender) ==
    IF NonSuiChangeIndex(balance_changes, sender) # 0
    THEN NonSuiChangeIndex(balance_changes, sender)
    ELSE AnyChangeIndex(balance_changes, sender)

\* gas subtracted instead of added back
net_change_gas_subtracted(raw_amount, token_name, gas) ==
    IF token_name = "SUI" THEN raw_amount - gas ELSE raw_amount

\* lines 171-177: gas is added back when the token name is "SUI"
net_change(raw_amount, token_name, gas) ==
    IF token_name = "SUI" THEN raw_amount + gas ELSE raw_amount

\* line 188: the coin type the recipient scan reads from a change
RecipientCoinType(change) == GetCoin(change.coinType, EmptyString)

\* lines 185-191: the recipient scan. float() is evaluated on every change of
\* another owner up to the one the loop breaks at.
FindRecipient(balance_changes, sender, coin_type) ==
    LET Other(k) == Owner(balance_changes[k]) # sender
        Fails(k) == Other(k) /\ ~Converts(balance_changes[k].amount)
        Hit(k) == /\ Other(k)
                  /\ Converts(balance_changes[k].amount)
                  /\ NumberOf(balance_changes[k].amount) > 0
                  /\ RecipientCoinType(balance_changes[k]) = coin_type
        Stop(k) == Fails(k) \/ Hit(k)
        first == IF \E k \in 1..Len(balance_changes) : Stop(k)
                 THEN CHOOSE k \in 1..Len(balance_changes) :
                        Stop(k) /\ \A j \in 1..(k - 1) : ~Stop(j)
                 ELSE 0
    IN  IF first = 0 THEN [exc |-> FALSE, recipient |-> "N/A"]
        ELSE IF Fails(first) THEN [exc |-> TRUE, recipient |-> "N/A"]
        ELSE [exc |-> FALSE, recipient |-> Owner(balance_changes[first])]

\* lines 139-199: the balance-change branch
BalanceBranch(balance_changes, sender, gas_used, gas_fee_sui) ==
    LET p == PrimaryChangeIndex(balance_changes, sender)
    IN  IF p = 0
        THEN Outcome("Unknown", Zero, "SUI", NoTarget, sender, "N/A", gas_fee_sui)
        ELSE
        LET primary_change == balance_changes[p]
            coin_type == GetCoin(primary_change.coinType, SUI_TYPE)
            token_name == parse_token_name(coin_type)
            net == net_change(NumberOf(primary_change.amount), token_name,
                              gas_mist(gas_used))
            found == FindRecipient(balance_changes, sender, coin_type)
        IN  IF ~Converts(primary_change.amount) THEN Raised
            ELSE IF net < 0
            THEN IF found.exc THEN Raised
                 ELSE Outcome("Send", format_amount(net), token_name, NoTarget,
                              sender, found.recipient, gas_fee_sui)
            ELSE IF net > 0
            THEN Outcome("Receive", format_amount(net), token_name, NoTarget,
                         sender, "N/A", gas_fee_sui)
            ELSE Outcome("Contract Call", Zero, token_name, NoTarget,
                         sender, "N/A", gas_fee_sui)

\* lines 65-210. tx is a record that was fetched (the caller passes no falsy
\* tx_data, line 286).
parse_transaction(tx, validator_map, target_keyword) ==
    LET sender == GetStr(tx.sender, "Unknown")
        gas_fee_sui == format_amount(gas_mist(tx.gasUsed))
        m == StakingEventIndex(tx.events.items)
    IN  IF ~GasConverts(tx.gasUsed) THEN Raised
        ELSE IF tx.events.null THEN Raised
        ELSE IF m # 0 /\ IsStakeEvent(EventType(tx.events.items[m]))
        THEN StakeBranch(tx.events.items[m].parsedJson, validator_map,
                         target_keyword, sender, gas_fee_sui)
        ELSE IF m # 0
        THEN UnstakeBranch(tx.events.items[m].parsedJson, sender, gas_fee_sui)
        ELSE IF tx.balanceChanges.null THEN Raised
        ELSE BalanceBranch(tx.balanceChanges.items, sender, tx.gasUsed, gas_fee_sui)

-----------------------------------------------------------------------------
(* The classifier under test: Init draws a fetched record, Classify calls   *)
(* parse_transaction on it.                                                 *)

\* st.session_state['v_map'], built by get_validator_map: lower-cased address
\* -> name
v_map == [a \in {"0xa1"} |-> "InfStones"]

\* the text input's default value, line 246
target_keyword == "Nansen"

SeqsUpTo(S, n) == UNION {[1..k -> S] : k \in 0..n}

SENDER == "0xA"
BLUB_TYPE == <<"0xabc", "blub", "BLUB">>
WRAPPED_SUI_TYPE == <<"0xabc", "wrapped", "SUI">>

NoGas == [computationCost |-> Absent, storageCost |-> Absent, storageRebate |-> Absent]

GasInputs ==
    { NoGas,
      [computationCost |-> Num(700000), storageCost |-> Num(500000),
       storageRebate |-> Num(200000)],
      [computationCost |-> Num(1), storageCost |-> Num(0), storageRebate |-> Num(5)],
      [computationCost |-> NotANumber, storageCost |-> Num(0), storageRebate |-> Num(0)] }

PayloadInputs ==
    { [amount |-> Num(1500000000), principal_amount |-> Absent,
       reward_amount |-> Absent, validator_address |-> "0xA1"],
      [amount |-> Num(700000000), principal_amount |-> Num(1000000000),
       reward_amount |-> Num(200000000), validator_address |-> "0xA36A"],
      [amount |-> Num(0), principal_amount |-> Absent,
       reward_amount |-> Absent, validator_address |-> NoKey],
      [amount |-> NotANumber, principal_amount |-> Absent,
       reward_amount |-> Absent, validator_address |-> NoKey] }

EventInputs ==
    [type : {StakeEventType, UnstakeEventType, OtherEventType},
     parsedJson : PayloadInputs]

ChangeInputs ==
    [owner : {SENDER, "0xB"},
     amount : {Absent, Num(-1200000000), Num(3), NotANumber},
     coinType : {NoCoin, SUI_TYPE, BLUB_TYPE, WRAPPED_SUI_TYPE}]

List(items) == [null |-> FALSE, items |-> items]
NullList == [null |-> TRUE, items |-> <<>>]

EventLists(n) == {List(s) : s \in SeqsUpTo(EventInputs, n)} \cup {NullList}
ChangeLists(n) == {List(s) : s \in SeqsUpTo(ChangeInputs, n)} \cup {NullList}

\* A record has up to MaxEvents events or up to MaxChanges balance changes,
\* with at most one entry in the other list.
InputRecords ==
    [sender : {SENDER}, gasUsed : GasInputs,
     events : EventLists(MaxEvents), balanceChanges : ChangeLists(1)]
    \cup
    [sender : {SENDER}, gasUsed : GasInputs,
     events : EventLists(1), balanceChanges : ChangeLists(MaxChanges)]

\* the value of rpc before any call
NoRpc == [result |-> [py |-> "None"], contacted |-> <<>>]

NoRecord == [sender |-> NoKey, gasUsed |-> NoGas, events |-> List(<<>>),
             balanceChanges |-> List(<<>>)]

InitClassify ==
    /\ tx_data \in InputRecords
    /\ data = Raised
    /\ cl_pc = "input"
    /\ responses = <<>>
    /\ rpc = NoRpc
    /\ rpc_pc = "idle"
    /\ all_hashes = <<>>
    /\ i = 0
    /\ pos = 1
    /\ batch_lookup = <<>>
    /\ out_rows = <<>>
    /\ trail = <<>>
    /\ pc = "idle"

\* line 287: data = parse_transaction(tx_info, v_map, target_keyword)
Classify ==
    /\ cl_pc = "input"
    /\ data' = parse_transaction(tx_data, v_map, target_keyword)
    /\ cl_pc' = IF data'.exc THEN "raised" ELSE "returned"
    /\ UNCHANGED <<tx_data, responses, rpc, rpc_pc, all_hashes, i, pos,
                   batch_lookup, out_rows, trail, pc>>

NextClassify == Classify

SpecClassify == InitClassify /\ [][NextClassify]_vars

-----------------------------------------------------------------------------
(* make_rpc_call and the two fetchers *)

RPC_NODES ==
    << "https://fullnode.mainnet.sui.io:443",
       "https://sui-rpc.publicnode.com",
       "https://sui-mainnet.nodeinfra.com:443",
       "https://mainnet.sui.rpcpool.com:443",
       "https://rpc.mainnet.sui.io:443" >>

\* Python values that travel through the fetchers: None, a dict (a transaction
\* block with its digest) and a list of items.
PyNone == [py |-> "None"]
Block(digest, tx) == [py |-> "dict", digest |-> digest, tx |-> tx]
NoDigest(tx) == [py |-> "dict", digest |-> NoKey, tx |-> tx]
PyList(items) == [py |-> "list", items |-> items]

\* bool(x)
Truthy(x) == x.py = "dict" \/ (x.py = "list" /\ x.items # <<>>)

\* What a node does with one POST:
\*   "timeout"   requests.post raises
\*   "status"    the status code is not 200
\*   "badjson"   response.json() raises
\*   "noresult"  the JSON object has no "result" member
\*   "result"    the JSON object has the member "result", with value result
Failure(kind) == [kind |-> kind, result |-> PyNone]
Success(result) == [kind |-> "result", result |-> result]
FailureKinds == {"timeout", "status", "badjson", "noresult"}

\* data.get("result") returned without the membership test of line 28
ReturnsAnyObject(response) == response.kind \in {"result", "noresult"}

\* lines 24-31: one pass of the loop body; TRUE when it returns
Returns(response) == response.kind = "result"

\* lines 21-32, from node n on: the returned value and the nodes posted to
RECURSIVE TryNodes(_, _, _)
TryNodes(resp, n, contacted) ==
    IF n > Len(RPC_NODES)
    THEN [result |-> PyNone, contacted |-> contacted]
    ELSE IF Returns(resp[n])
    THEN [result |-> resp[n].result, contacted |-> Append(contacted, n)]
    ELSE TryNodes(resp, n + 1, Append(contacted, n))

\* resp[n] is the answer of RPC_NODES[n] to this method and these params
make_rpc_call(resp) == TryNodes(resp, 1, <<>>)

fetch_batch_transactions(resp) == make_rpc_call(resp).result
fetch_single_transaction(resp) == make_rpc_call(resp).result

ResponseInputs ==
    {Failure(k) : k \in FailureKinds}
        \cup {Success(PyNone), Success(Block("h1", NoRecord))}

InitRpc ==
    /\ responses \in [1..Len(RPC_NODES) -> ResponseInputs]
    /\ rpc = NoRpc
    /\ rpc_pc = "call"
    /\ tx_data = NoRecord
    /\ data = Raised
    /\ cl_pc = "idle"
    /\ all_hashes = <<>>
    /\ i = 0
    /\ pos = 1
    /\ batch_lookup = <<>>
    /\ out_rows = <<>>
    /\ trail = <<>>
    /\ pc = "idle"

RpcCall ==
    /\ rpc_pc = "call"
    /\ rpc' = make_rpc_call(responses)
    /\ rpc_pc' = "returned"
    /\ UNCHANGED <<tx_data, data, cl_pc, responses, all_hashes, i, pos,
                   batch_lookup, out_rows, trail, pc>>

NextRpc == RpcCall

SpecRpc == InitRpc /\ [][NextRpc]_vars

-----------------------------------------------------------------------------
(* The "Run Analysis" handler, lines 248-318 *)

BATCH_SIZE == 10

\* The ledger the nodes serve: the block of each digest.
SendRecord ==
    [sender |-> SENDER,
     gasUsed |-> [computationCost |-> Num(700000), storageCost |-> Num(500000),
                  storageRebate |-> Num(200000)],
     events |-> List(<<>>),
     balanceChanges |-> List(<< [owner |-> SENDER, amount |-> Num(-1200000000),
                                 coinType |-> SUI_TYPE],
                                [owner |-> "0xB", amount |-> Num(1199000000),
                                 coinType |-> SUI_TYPE] >>)]

StakeRecord ==
    [sender |-> SENDER, gasUsed |-> NoGas,
     events |-> List(<< [type |-> StakeEventType,
                         parsedJson |-> [amount |-> Num(1500000000),
                                         principal_amount |-> Absent,
                                         reward_amount |-> Absent,
                                         validator_address |-> "0xA1"]] >>),
     balanceChanges |-> List(<<>>)]

\* a block whose gas field is no number
MalformedRecord ==
    [SendRecord EXCEPT !.gasUsed.computationCost = NotANumber]

Digests == <<"h1", "h2", "h3">>

Ledger(digest) ==
    CASE digest = "h1" -> SendRecord
      [] digest = "h2" -> StakeRecord
      [] OTHER -> MalformedRecord

\* The identifier columns: up to MaxHashes identifiers, with repetitions.
HashLists ==
    { [k \in 1..n |-> Digests[((k + off) % Len(Digests)) + 1]] :
        n \in 0..MaxHashes, off \in 0..(Len(Digests) - 1) }
    \cup { [k \in 1..n |-> "h1"] : n \in 0..MaxHashes }

\* How the nodes answer one call whose eventual payload is `result`: every node
\* fails, the first node answers, or only the last node answers.
Min(a, b) == IF a < b THEN a ELSE b
AllFail == [n \in 1..Len(RPC_NODES) |-> Failure("timeout")]
FirstAnswers(result) ==
    [n \in 1..Len(RPC_NODES) |-> IF n = 1 THEN Success(result) ELSE Failure("timeout")]
LastAnswers(result) ==
    [n \in 1..Len(RPC_NODES) |->
        IF n = Len(RPC_NODES) THEN Success(result)
        ELSE Failure(IF n % 2 = 0 THEN "status" ELSE IF n = 1 THEN "badjson" ELSE "noresult")]
Answers(results) ==
    {AllFail} \cup {FirstAnswers(r) : r \in results} \cup {LastAnswers(r) : r \in results}

\* the digests of a batch, each once, in order of first occurrence
RECURSIVE Distinct(_)
Distinct(hashes) ==
    IF hashes = <<>> THEN <<>>
    ELSE LET rest == Distinct(SubSeq(hashes, 1, Len(hashes) - 1))
             last == hashes[Len(hashes)]
         IN  IF \E k \in 1..Len(rest) : rest[k] = last THEN rest ELSE Append(rest, last)

\* The payloads sui_multiGetTransactionBlocks can carry for a batch: null, or
\* a list with, per requested digest, its block, a null item or an item
\* without digest.
BatchPayloads(batch_hashes) ==
    LET ds == Distinct(batch_hashes)
    IN  {PyNone} \cup
        { PyList([k \in 1..Len(ds) |->
                    IF f[k] = "block" THEN Block(ds[k], Ledger(ds[k]))
                    ELSE IF f[k] = "null" THEN PyNone
                    ELSE NoDigest(Ledger(ds[k]))]) :
            f \in [1..Len(ds) -> {"block", "null", "nodigest"}] }

\* The payloads sui_getTransactionBlock can carry for one digest.
SinglePayloads(tx_hash) == {PyNone, Block(tx_hash, Ledger(tx_hash))}

\* line 275: {item['digest']: item for item in batch_data if item and 'digest' in item}
Keeps(item) == Truthy(item) /\ item.digest # NoKey

LookupOf(items) ==
    LET keys == {items[k].digest : k \in {j \in 1..Len(items) : Keeps(items[j])}}
    IN  [d \in keys |->
            items[CHOOSE k \in 1..Len(items) :
                    /\ Keeps(items[k]) /\ items[k].digest = d
                    /\ \A j \in (k + 1)..Len(items) :
                         ~(Keeps(items[j]) /\ items[j].digest = d)]]

\* lines 273-275
BatchLookup(batch_data) ==
    IF Truthy(batch_data) THEN LookupOf(batch_data.items) ELSE <<>>

\* lines 279-281
FromBatch(tx_hash, lookup) ==
    IF tx_hash \in DOMAIN lookup THEN lookup[tx_hash] ELSE PyNone

\* the retry made for every identifier
AlwaysSingleFetch(tx_info) == TRUE

\* line 282: if not tx_info
NeedsSingleFetch(tx_info) == ~Truthy(tx_info)

\* lines 297-304
ErrorRow ==
    [Outcome("Error", Zero, "N/A", NoTarget, "N/A", "N/A", Zero)
        EXCEPT !.Timestamp = "N/A"]

\* lines 286-304: the row appended for tx_info; exc when parse_transaction raised
RowFor(tx_info) ==
    IF Truthy(tx_info)
    THEN parse_transaction(tx_info.tx, v_map, target_keyword)
    ELSE ErrorRow

BatchEnd == Min(i + BATCH_SIZE, Len(all_hashes))

Init ==
    /\ all_hashes \in HashLists
    /\ i = 0
    /\ pos = 1
    /\ batch_lookup = <<>>
    /\ out_rows = <<>>
    /\ trail = <<>>
    /\ pc = "batch"
    /\ tx_data = NoRecord
    /\ data = Raised
    /\ cl_pc = "idle"
    /\ responses = <<>>
    /\ rpc = NoRpc
    /\ rpc_pc = "idle"

\* lines 266-275: the head of one batch iteration
StartBatch ==
    /\ pc = "batch"
    /\ i < Len(all_hashes)
    /\ LET batch_hashes == SubSeq(all_hashes, i + 1, BatchEnd)
       IN  \E resp \in Answers(BatchPayloads(batch_hashes)) :
              batch_lookup' = BatchLookup(fetch_batch_transactions(resp))
    /\ pos' = i + 1
    /\ pc' = "process"
    /\ UNCHANGED <<all_hashes, i, out_rows, trail,
                   tx_data, data, cl_pc, responses, rpc, rpc_pc>>

\* lines 278-306: one tx_hash of the batch; after the last one, the next i
ProcessHash ==
    /\ pc = "process"
    /\ LET tx_hash == all_hashes[pos]
           first == FromBatch(tx_hash, batch_lookup)
       IN  \E resp \in Answers(SinglePayloads(tx_hash)) :
              LET single == NeedsSingleFetch(first)
                  tx_info == IF single THEN fetch_single_transaction(resp) ELSE first
                  row == RowFor(tx_info)
              IN  /\ trail' = Append(trail, [tx_hash |-> tx_hash,
                                             in_batch |-> tx_hash \in DOMAIN batch_lookup,
                                             single |-> single,
                                             single_found |-> single /\ Truthy(tx_info)])
                  /\ IF row.exc
                     THEN /\ pc' = "raised"
                          /\ UNCHANGED <<out_rows, pos, i>>
                     ELSE /\ out_rows' = Append(out_rows, row)
                          /\ pos' = pos + 1
                          /\ IF pos = BatchEnd
                             THEN i' = i + BATCH_SIZE /\ pc' = "batch"
                             ELSE i' = i /\ pc' = "process"
    /\ UNCHANGED <<all_hashes, batch_lookup,
                   tx_data, data, cl_pc, responses, rpc, rpc_pc>>

\* lines 308-318: the loop is over, the columns are built
Finish ==
    /\ pc = "batch"
    /\ i >= Len(all_hashes)
    /\ pc' = "done"
    /\ UNCHANGED <<all_hashes, i, pos, batch_lookup, out_rows, trail,
                   tx_data, data, cl_pc, responses, rpc, rpc_pc>>

Next == StartBatch \/ ProcessHash \/ Finish

Spec == Init /\ [][Next]_vars

-----------------------------------------------------------------------------
(* Properties of the classifier, stated on the record and the result alone *)

Abs(n) == IF n < 0 THEN 0 - n ELSE n

Returned == cl_pc = "returned"
Events == tx_data.events.items
Changes == tx_data.balanceChanges.items
TheSender == GetStr(tx_data.sender, "Unknown")

\* An event type that signals a stake deposit or a stake withdrawal
SignalsDeposit(event) == event.type = StakeEventType
SignalsWithdrawal(event) == event.type = UnstakeEventType
Signals(event) == SignalsDeposit(event) \/ SignalsWithdrawal(event)
NoStakingEvent == \A k \in 1..Len(Events) : ~Signals(Events[k])

\* The asset identifier of a change, the native one when the change has none
AssetOf(change) == IF change.coinType = NoCoin THEN SUI_TYPE ELSE change.coinType
OwnedBySender(change) == change.owner = TheSender

\* The principal change: the sender's first non-native change, else the
\* sender's first change; 0 when the sender owns no change.
PrincipalIndex ==
    LET NonNative(k) == OwnedBySender(Changes[k]) /\ AssetOf(Changes[k]) # SUI_TYPE
        Own(k) == OwnedBySender(Changes[k])
        First(P(_)) == IF \E k \in 1..Len(Changes) : P(k)
                       THEN CHOOSE k \in 1..Len(Changes) :
                              P(k) /\ \A j \in 1..(k - 1) : ~P(j)
                       ELSE 0
    IN  IF First(NonNative) # 0 THEN First(NonNative) ELSE First(Own)

\* The fallback ran and found a principal change
ByFallback == Returned /\ NoStakingEvent /\ PrincipalIndex # 0
Principal == Changes[PrincipalIndex]
RawAmount == NumberOf(Principal.amount)
NetGas == gas_mist(tx_data.gasUsed)

\* C4: a fetched record with no staking event and no change owned by the
\* sender is classified Contract Call with amount 0 on the native asset.
C4_NoSenderEntryIsContractCall ==
    (Returned /\ NoStakingEvent /\ PrincipalIndex = 0)
        => (data.Type = "Contract Call" /\ IsZero(data.Amount) /\ data.Token = "SUI")

\* Gas sub-fields and declared event amounts are non-negative integers
NonNegative(v) == v.t = "absent" \/ (v.t = "num" /\ v.n >= 0)
NonNegativeInputs ==
    /\ NonNegative(tx_data.gasUsed.computationCost)
    /\ NonNegative(tx_data.gasUsed.storageCost)
    /\ NonNegative(tx_data.gasUsed.storageRebate)
    /\ \A k \in 1..Len(Events) :
         /\ NonNegative(Events[k].parsedJson.amount)
         /\ NonNegative(Events[k].parsedJson.principal_amount)
         /\ NonNegative(Events[k].parsedJson.reward_amount)

\* C5 as stated: Stake and Send amounts are negative, Unstake and Receive
\* amounts non-negative, Contract Call amounts zero.
C5_SignConvention ==
    (Returned /\ NonNegativeInputs) =>
        /\ data.Type \in {"Stake", "Send"} => IsNegative(data.Amount)
        /\ data.Type \in {"Unstake", "Receive"} => ~IsNegative(data.Amount)
        /\ data.Type = "Contract Call" => IsZero(data.Amount)

\* the event the scan stops at
FirstSignal == CHOOSE k \in 1..Len(Events) :
                  Signals(Events[k]) /\ \A j \in 1..(k - 1) : ~Signals(Events[j])

\* C5 as amended: a Stake amount is never positive, and is negative exactly
\* when the declared amount is positive; Send amounts are negative, Unstake
\* and Receive amounts non-negative, Contract Call amounts zero.
C5_SignConventionAmended ==
    (Returned /\ NonNegativeInputs) =>
        /\ data.Type = "Stake" =>
             /\ ~IsPositive(data.Amount)
             /\ IsNegative(data.Amount)
                  <=> NumberOf(Events[FirstSignal].parsedJson.amount) > 0
        /\ data.Type = "Send" => IsNegative(data.Amount)
        /\ data.Type \in {"Unstake", "Receive"} => ~IsNegative(data.Amount)
        /\ data.Type = "Contract Call" => IsZero(data.Amount)

C5_StakeOfZero ==
    /\ Returned /\ NonNegativeInputs
    /\ data.Type = "Stake" /\ IsZero(data.Amount)
    /\ Events[FirstSignal].parsedJson.amount = Num(0)

NativeTransfer ==
    /\ ByFallback
    /\ AssetOf(Principal) = SUI_TYPE
    /\ data.Type \in {"Send", "Receive"}

\* C6 as stated: for a native Send or Receive of the fallback, the magnitude
\* of the amount plus the gas fee is the magnitude of the raw change.
C6_GasReconciliation ==
    NativeTransfer =>
        Abs(MistOf(data.Amount)) + MistOf(data.GasFees) = Abs(RawAmount)

\* C6 as amended: the amount minus the gas fee is the raw change, signed; the
\* magnitudes add up as stated for a Send whose raw change is not positive.
C6_GasReconciliationAmended ==
    NativeTransfer =>
        /\ MistOf(data.Amount) - MistOf(data.GasFees) = RawAmount
        /\ (data.Type = "Send" /\ RawAmount <= 0) =>
             Abs(MistOf(data.Amount)) + MistOf(data.GasFees) = Abs(RawAmount)

C6_ReceiveWithGas ==
    /\ NativeTransfer
    /\ data.Type = "Receive"
    /\ NetGas > 0
    /\ RawAmount > 0

\* C8: netChange is the raw amount plus netGas exactly when the principal
\* change's asset is the native asset (or absent); for any other asset it is
\* the raw amount, so type and amount do not depend on gas.
C8_GasOnlyOnNative ==
    ByFallback =>
        LET net == IF AssetOf(Principal) = SUI_TYPE
                   THEN RawAmount + NetGas ELSE RawAmount
        IN  /\ MistOf(data.Amount) = net
            /\ data.Type = IF net < 0 THEN "Send"
                           ELSE IF net > 0 THEN "Receive" ELSE "Contract Call"

\* C9: the recipient of a Send is the owner of the first change of another
\* owner with a positive amount on the principal asset, the asset of a change
\* without identifier being the native one; "N/A" when there is none.
C9_RecipientIsFirstMatching ==
    (ByFallback /\ data.Type = "Send") =>
        LET Hit(k) == /\ ~OwnedBySender(Changes[k])
                      /\ NumberOf(Changes[k].amount) > 0
                      /\ AssetOf(Changes[k]) = AssetOf(Principal)
        IN  IF \E k \in 1..Len(Changes) : Hit(k)
            THEN data.Recipient =
                   (LET first == CHOOSE k \in 1..Len(Changes) :
                                    Hit(k) /\ \A j \in 1..(k - 1) : ~Hit(j)
                    IN  Changes[first].owner)
            ELSE data.Recipient = "N/A"

\* What the record becomes when only the first signalling event is kept
OnlyFirstSignal ==
    [tx_data EXCEPT !.events = List(<<Events[FirstSignal]>>),
                    !.balanceChanges = List(<<>>)]

Classified(o) == <<o.exc, o.Type, o.Amount, o.Token, o.Recipient>>

\* C10: the first event, in order, that signals a stake deposit or withdrawal
\* fixes type, amount, asset and recipient by itself: later events and the
\* balance changes change nothing, and the fallback's types appear only when
\* no event signals.
C10_FirstEventWins ==
    cl_pc # "input" =>
        /\ ~NoStakingEvent =>
             /\ Classified(data)
                  = Classified(parse_transaction(OnlyFirstSignal, v_map, target_keyword))
             /\ ~data.exc =>
                  data.Type = IF SignalsDeposit(Events[FirstSignal])
                              THEN "Stake" ELSE "Unstake"
        /\ (~data.exc /\ data.Type \in {"Send", "Receive", "Contract Call", "Unknown"})
             => NoStakingEvent

C10_TwoSignals ==
    /\ Returned
    /\ Len(Events) = 2
    /\ SignalsWithdrawal(Events[1]) /\ SignalsDeposit(Events[2])
    /\ data.Type = "Unstake"
    /\ Len(Changes) = 1 /\ OwnedBySender(Changes[1])

\* C7: a missing or malformed field of a fetched record raises no fault.
C7_NoFault == cl_pc # "raised"

-----------------------------------------------------------------------------
(* Properties of the fetcher *)

Succeeds(n) == responses[n].kind = "result"
SomeSucceeds == \E n \in 1..Len(RPC_NODES) : Succeeds(n)
FirstSuccess == CHOOSE n \in 1..Len(RPC_NODES) :
                    Succeeds(n) /\ \A m \in 1..(n - 1) : ~Succeeds(m)
InListOrder == rpc.contacted = [k \in 1..Len(rpc.contacted) |-> k]
Exhausted == Len(rpc.contacted) = Len(RPC_NODES) /\ ~SomeSucceeds

\* C3 as stated: the nodes are tried in list order; the result of the first
\* node that answers with a result is returned and no later node is contacted;
\* None is returned only after every node has been tried and has failed.
C3_EndpointFallback ==
    rpc_pc = "returned" =>
        /\ InListOrder
        /\ SomeSucceeds =>
             /\ rpc.result = responses[FirstSuccess].result
             /\ Len(rpc.contacted) = FirstSuccess
        /\ ~SomeSucceeds => (rpc.result = PyNone /\ Exhausted)
        /\ rpc.result = PyNone => Exhausted

\* C3 as amended: as stated, but None is returned after every node has been
\* tried and has failed or when the first node that answers with a result
\* answers with the result null.
C3_EndpointFallbackAmended ==
    rpc_pc = "returned" =>
        /\ InListOrder
        /\ SomeSucceeds =>
             /\ rpc.result = responses[FirstSuccess].result
             /\ Len(rpc.contacted) = FirstSuccess
        /\ ~SomeSucceeds => (rpc.result = PyNone /\ Exhausted)
        /\ rpc.result = PyNone =>
             \/ Exhausted
             \/ SomeSucceeds /\ responses[FirstSuccess].result = PyNone

C3_NullResultWins ==
    /\ rpc_pc = "returned"
    /\ responses[1].kind = "status"
    /\ responses[2] = Success(PyNone)
    /\ responses[3].kind = "result" /\ responses[3].result # PyNone
    /\ rpc.result = PyNone
    /\ rpc.contacted = <<1, 2>>

-----------------------------------------------------------------------------
(* Properties of the run *)

Ended == pc \in {"done", "raised"}

\* the classifier's result for the block of an identifier
ResultFor(tx_hash) == parse_transaction(Ledger(tx_hash), v_map, target_keyword)

\* C1: when the run has ended there is one row per identifier, and the row at
\* position k is the result for the identifier at position k.
C1_OneRowPerIdentifier ==
    Ended =>
        /\ Len(out_rows) = Len(all_hashes)
        /\ \A k \in 1..Len(out_rows) :
             out_rows[k] \in {ErrorRow, ResultFor(all_hashes[k])}

IsErrorRow(row) ==
    /\ row.Type = "Error"
    /\ IsZero(row.Amount) /\ IsZero(row.GasFees)
    /\ row.Token = "N/A" /\ row.TargetAmount = NoTarget /\ row.Timestamp = "N/A"
    /\ row.Sender = "N/A" /\ row.Recipient = "N/A"

\* C2: the single-record fetch is attempted for an identifier exactly when the
\* identifier is absent from the batch result; a row is the Error row exactly
\* when neither fetch yielded a record, and is the classifier's result when
\* either did.
C2_RetryAndErrorRows ==
    /\ \A k \in 1..Len(trail) :
         /\ trail[k].tx_hash = all_hashes[k]
         /\ trail[k].single <=> ~trail[k].in_batch
    /\ Len(out_rows) <= Len(trail)
    /\ \A k \in 1..Len(out_rows) :
         LET yielded == trail[k].in_batch \/ trail[k].single_found
         IN  /\ out_rows[k].Type = "Error" <=> ~yielded
             /\ ~yielded => IsErrorRow(out_rows[k])
             /\ yielded => out_rows[k] = ResultFor(all_hashes[k])

C2_AllThreeKinds ==
    /\ pc = "done"
    /\ \E k \in 1..Len(out_rows) : trail[k].in_batch /\ out_rows[k].Type = "Stake"
    /\ \E k \in 1..Len(out_rows) :
         ~trail[k].in_batch /\ trail[k].single_found /\ out_rows[k].Type = "Send"
    /\ \E k \in 1..Len(out_rows) :
         /\ ~trail[k].in_batch /\ trail[k].single /\ ~trail[k].single_found
         /\ out_rows[k].Type = "Error"
    /\ Len(all_hashes) > BATCH_SIZE

====
